---- MODULE Spec2Model ----
(***************************************************************************)
(* Cut-flow filtering pipeline of rootpy (rootpy/tree/filtering.py):       *)
(* Filter, EventFilter, ObjectFilter, FilterList, EventFilterList and      *)
(* ObjectFilterList, with the evaluation of lists, the type-constrained    *)
(* list operations and the merge of two lists.                             *)
(*                                                                         *)
(* Python values are modelled as records: a stage is a record carrying     *)
(* the attributes Filter.__init__ sets plus "kind" (its class) and         *)
(* "overrides" (whether the concrete class overrides passes / filtered);   *)
(* a dict is a function whose DOMAIN is its key set; None is the record    *)
(* NoneValue.  A raised exception is the field "raised" of a call's        *)
(* outcome ("none" when the call returned).                                *)
(***************************************************************************)
EXTENDS Integers, Sequences, FiniteSets, TLC

VARIABLES flist,    \* the FilterList under evaluation / construction: [cls, items]
          driver,   \* what the driver has done so far: [calls, accepted, objects]
          last,     \* outcome of the last operation
          opnd,     \* the operand lists of merge: [a, b, c]
          res,      \* outcomes of the merge calls made so far
          heap,     \* the details dicts that are shared by reference: id -> dict
          snaps,    \* the snapshots (__getstate__ results) taken so far
          LOCK,     \* rootpy.context.LOCK: [owner, count]
          gROOT,    \* the process-wide ROOT state: [batch, add_directory, style]
          threads   \* per thread: the stack of context managers it is inside

snapVars == <<heap, snaps>>

ctxVars == <<LOCK, gROOT, threads>>

vars == <<flist, driver, last, opnd, res, heap, snaps, LOCK, gROOT, threads>>

----------------------------------------------------------------------------
(* Bounds of the model *)

MaxStages == 2      \* longest list
MaxCalls == 4       \* operations per run
MaxObjs == 3        \* objects met in one run, over all its collections
MaxHooks == 2       \* hooks registered on an EventFilter
MaxCount == 2       \* largest scale of the counters of a merge operand

StageNames == <<"CutA", "CutB", "CutC", "CutD">>

NoneValue == [kind |-> "NoneType"]
EmptyDict == [k \in {} |-> 0]

----------------------------------------------------------------------------
(* Filter.__init__ and the two subclasses' construction.  The name is the  *)
(* class name; overrides tells whether that class defines passes/filtered. *)

Filter_init(kind, name, hooks, passthrough, overrides) ==
    [kind |-> kind, name |-> name, total |-> 0, passing |-> 0,
     details |-> EmptyDict, hooks |-> hooks, passthrough |-> passthrough,
     overrides |-> overrides]

EventFilter_init(name, hooks, passthrough, overrides) ==
    Filter_init("EventFilter", name, hooks, passthrough, overrides)

ObjectFilter_init(name, count_events, passthrough, overrides) ==
    [count_events |-> count_events] @@
    Filter_init("ObjectFilter", name, 0, passthrough, overrides)

----------------------------------------------------------------------------
(* EventFilter.__call__.  ans is what the overridden passes(event) answers *)
(* for this event.  The trace lists the observable effects in order.       *)

Eff(ev, h) == [ev |-> ev, h |-> h]

HookCalls(n) == [j \in 1..n |-> Eff("hook", j)]

\* A plausible slip: the base class answers instead of raising.
EventFilter_passes_default(self, ans) ==
    IF self.overrides THEN [ret |-> ans, raised |-> "none"]
    ELSE [ret |-> FALSE, raised |-> "none"]

EventFilter_passes(self, ans) ==
    IF self.overrides THEN [ret |-> ans, raised |-> "none"]
    ELSE [ret |-> FALSE, raised |-> "NotImplementedError"]

\* A plausible slip: the event is counted only once it has passed.
EventFilter_call_countsOnPass(self, ans) ==
    IF self.passthrough \/ (self.overrides /\ ans)
    THEN [self |-> [self EXCEPT !.total = @ + 1, !.passing = @ + 1],
          ret |-> TRUE, raised |-> "none",
          trace |-> HookCalls(self.hooks) \o <<Eff("total", 0), Eff("passing", 0)>>]
    ELSE [self |-> self, ret |-> FALSE,
          raised |-> IF self.overrides THEN "none" ELSE "NotImplementedError",
          trace |-> <<Eff("passes", 0)>>]

\* A plausible slip: the predicate is asked before passthrough is looked at.
EventFilter_call_asksFirst(self, ans) ==
    LET counted == [self EXCEPT !.total = @ + 1]
        p == EventFilter_passes(self, ans)
    IN  IF p.raised # "none"
        THEN [self |-> counted, ret |-> FALSE, raised |-> p.raised,
              trace |-> <<Eff("total", 0), Eff("passes", 0)>>]
        ELSE IF p.ret \/ self.passthrough
        THEN [self |-> [counted EXCEPT !.passing = @ + 1], ret |-> TRUE,
              raised |-> "none",
              trace |-> <<Eff("total", 0), Eff("passes", 0)>>
                        \o HookCalls(self.hooks) \o <<Eff("passing", 0)>>]
        ELSE [self |-> counted, ret |-> FALSE, raised |-> "none",
              trace |-> <<Eff("total", 0), Eff("passes", 0)>>]

\* A plausible slip: passing is incremented before the hooks are run.
EventFilter_call_hooksLast(self, ans) ==
    LET counted == [self EXCEPT !.total = @ + 1]
        p == EventFilter_passes(self, ans)
        asked == IF self.passthrough THEN <<>> ELSE <<Eff("passes", 0)>>
    IN  IF ~self.passthrough /\ p.raised # "none"
        THEN [self |-> counted, ret |-> FALSE, raised |-> p.raised,
              trace |-> <<Eff("total", 0)>> \o asked]
        ELSE IF self.passthrough \/ p.ret
        THEN [self |-> [counted EXCEPT !.passing = @ + 1], ret |-> TRUE,
              raised |-> "none",
              trace |-> <<Eff("total", 0)>> \o asked \o <<Eff("passing", 0)>>
                        \o HookCalls(self.hooks)]
        ELSE [self |-> counted, ret |-> FALSE, raised |-> "none",
              trace |-> <<Eff("total", 0)>> \o asked]

EventFilter_call(self, ans) ==
    LET counted == [self EXCEPT !.total = @ + 1]
        p == EventFilter_passes(self, ans)
        asked == IF self.passthrough THEN <<>> ELSE <<Eff("passes", 0)>>
    IN  IF ~self.passthrough /\ p.raised # "none"
        THEN [self |-> counted, ret |-> FALSE, raised |-> p.raised,
              trace |-> <<Eff("total", 0)>> \o asked]
        ELSE IF self.passthrough \/ p.ret
        THEN [self |-> [counted EXCEPT !.passing = @ + 1], ret |-> TRUE,
              raised |-> "none",
              trace |-> <<Eff("total", 0)>> \o asked \o HookCalls(self.hooks)
                        \o <<Eff("passing", 0)>>]
        ELSE [self |-> counted, ret |-> FALSE, raised |-> "none",
              trace |-> <<Eff("total", 0)>> \o asked]

----------------------------------------------------------------------------
(* ObjectFilter.__call__.  filtered is overridden by the concrete class    *)
(* and narrows the collection it is given: which objects it retains is     *)
(* the selection's business, so every sub-collection is a possible return. *)
(* The operators give the set of possible outcomes of the call.            *)

ObjectFilter_filtered(self, collection) ==
    IF self.overrides
    THEN { [ret |-> out, raised |-> "none"] : out \in SUBSET collection }
    ELSE { [ret |-> {}, raised |-> "NotImplementedError"] }

\* A plausible slip: passing always grows by the number of objects kept.
ObjectFilter_count_bySize(self, counted, out, narrowed) ==
    [self |-> [counted EXCEPT !.passing = @ + Cardinality(out)],
     ret |-> out, raised |-> "none", narrowed |-> narrowed]

\* A plausible slip: passing grows by one per call in either mode.
ObjectFilter_count_oncePerCall(self, counted, out, narrowed) ==
    [self |-> IF Cardinality(out) > 0
              THEN [counted EXCEPT !.passing = @ + 1]
              ELSE counted,
     ret |-> out, raised |-> "none", narrowed |-> narrowed]

\* A plausible slip: in count_events mode passing grows on every call.
ObjectFilter_count_evenEmpty(self, counted, out, narrowed) ==
    [self |-> IF self.count_events
              THEN [counted EXCEPT !.passing = @ + 1]
              ELSE [counted EXCEPT !.passing = @ + Cardinality(out)],
     ret |-> out, raised |-> "none", narrowed |-> narrowed]

ObjectFilter_count(self, counted, out, narrowed) ==
    [self |-> IF Cardinality(out) > 0
              THEN [counted EXCEPT !.passing =
                        IF self.count_events THEN @ + 1
                        ELSE @ + Cardinality(out)]
              ELSE counted,
     ret |-> out, raised |-> "none", narrowed |-> narrowed]

\* A plausible slip: passthrough is ignored and the collection always narrowed.
ObjectFilter_call_narrowsAnyway(self, collection) ==
    LET counted == [self EXCEPT !.total =
                        IF self.count_events THEN @ + 1
                        ELSE @ + Cardinality(collection)]
    IN  { IF f.raised # "none"
          THEN [self |-> counted, ret |-> {}, raised |-> f.raised,
                narrowed |-> TRUE]
          ELSE ObjectFilter_count(self, counted, f.ret, TRUE) :
          f \in ObjectFilter_filtered(self, collection) }

ObjectFilter_call(self, collection) ==
    LET counted == [self EXCEPT !.total =
                        IF self.count_events THEN @ + 1
                        ELSE @ + Cardinality(collection)]
    IN  IF self.passthrough
        THEN { ObjectFilter_count(self, counted, collection, FALSE) }
        ELSE { IF f.raised # "none"
               THEN [self |-> counted, ret |-> {}, raised |-> f.raised,
                     narrowed |-> TRUE]
               ELSE ObjectFilter_count(self, counted, f.ret, TRUE) :
               f \in ObjectFilter_filtered(self, collection) }

----------------------------------------------------------------------------
(* FilterList.total and FilterList.passing *)

FilterList_total(items) == IF Len(items) > 0 THEN items[1].total ELSE 0

FilterList_passing(items) ==
    IF Len(items) > 0 THEN items[Len(items)].passing ELSE 0

----------------------------------------------------------------------------
(* EventFilterList.__call__: the loop over the stages, from stage i on.    *)
(* event[i] is the answer of stage i's predicate for the event.            *)

TagStage(trace, i) ==
    [j \in 1..Len(trace) |-> [st |-> i] @@ trace[j]]

RECURSIVE EventFilterList_loop(_, _, _, _)
EventFilterList_loop(items, event, i, trace) ==
    IF i > Len(items)
    THEN [items |-> items, ret |-> TRUE, raised |-> "none", trace |-> trace]
    ELSE LET r == EventFilter_call(items[i], event[i])
             its == [items EXCEPT ![i] = r.self]
             tr == trace \o TagStage(r.trace, i)
         IN  IF r.raised # "none"
             THEN [items |-> its, ret |-> FALSE, raised |-> r.raised, trace |-> tr]
             ELSE IF ~r.ret
             THEN [items |-> its, ret |-> FALSE, raised |-> "none", trace |-> tr]
             ELSE EventFilterList_loop(its, event, i + 1, tr)

\* A plausible slip: the loop runs every stage and answers the conjunction.
RECURSIVE EventFilterList_loop_all(_, _, _, _, _)
EventFilterList_loop_all(items, event, i, trace, sofar) ==
    IF i > Len(items)
    THEN [items |-> items, ret |-> sofar, raised |-> "none", trace |-> trace]
    ELSE LET r == EventFilter_call(items[i], event[i])
             its == [items EXCEPT ![i] = r.self]
             tr == trace \o TagStage(r.trace, i)
         IN  IF r.raised # "none"
             THEN [items |-> its, ret |-> FALSE, raised |-> r.raised, trace |-> tr]
             ELSE EventFilterList_loop_all(its, event, i + 1, tr, sofar /\ r.ret)

EventFilterList_call_all(items, event) ==
    EventFilterList_loop_all(items, event, 1, <<>>, TRUE)

EventFilterList_call(items, event) ==
    EventFilterList_loop(items, event, 1, <<>>)

----------------------------------------------------------------------------
(* ObjectFilterList.__call__: the loop over the stages, from stage i on:   *)
(* the set of its possible outcomes.  The trace records, for every stage   *)
(* invoked, the collection it received and the one it gave back.           *)

RECURSIVE ObjectFilterList_loop(_, _, _, _)
ObjectFilterList_loop(items, i, passing_objects, trace) ==
    IF i > Len(items)
    THEN { [items |-> items, ret |-> passing_objects, raised |-> "none",
            trace |-> trace] }
    ELSE UNION {
           LET its == [items EXCEPT ![i] = r.self]
               tr == Append(trace, [st |-> i, in |-> passing_objects,
                                    out |-> r.ret, raised |-> r.raised,
                                    narrowed |-> r.narrowed])
           IN  IF r.raised # "none"
               THEN { [items |-> its, ret |-> {}, raised |-> r.raised,
                       trace |-> tr] }
               ELSE IF r.ret = {}
               THEN { [items |-> its, ret |-> {}, raised |-> "none",
                       trace |-> tr] }
               ELSE ObjectFilterList_loop(its, i + 1, r.ret, tr) :
           r \in ObjectFilter_call(items[i], passing_objects) }

\* A plausible slip: the loop does not stop on an empty collection.
RECURSIVE ObjectFilterList_loop_all(_, _, _, _)
ObjectFilterList_loop_all(items, i, passing_objects, trace) ==
    IF i > Len(items)
    THEN { [items |-> items, ret |-> passing_objects, raised |-> "none",
            trace |-> trace] }
    ELSE UNION {
           LET its == [items EXCEPT ![i] = r.self]
               tr == Append(trace, [st |-> i, in |-> passing_objects,
                                    out |-> r.ret, raised |-> r.raised,
                                    narrowed |-> r.narrowed])
           IN  IF r.raised # "none"
               THEN { [items |-> its, ret |-> {}, raised |-> r.raised,
                       trace |-> tr] }
               ELSE ObjectFilterList_loop_all(its, i + 1, r.ret, tr) :
           r \in ObjectFilter_call(items[i], passing_objects) }

ObjectFilterList_call_all(items, collection) ==
    ObjectFilterList_loop_all(items, 1, collection, <<>>)

\* A plausible variant: the call returns at once when given nothing to narrow.
ObjectFilterList_call_guarded(items, collection) ==
    IF collection = {}
    THEN { [items |-> items, ret |-> {}, raised |-> "none", trace |-> <<>>] }
    ELSE ObjectFilterList_loop(items, 1, collection, <<>>)

ObjectFilterList_call(items, collection) ==
    ObjectFilterList_loop(items, 1, collection, <<>>)

----------------------------------------------------------------------------
(* The lists a run can start from: every stage sequence of length at most  *)
(* MaxStages, each stage freshly constructed, stage i an instance of the   *)
(* i-th class.  An EventFilter is built with no hooks or with MaxHooks of  *)
(* them; a class may or may not override passes / filtered.                *)

EventStages(i) ==
    { EventFilter_init(StageNames[i], h, p, o) :
        h \in {0, MaxHooks}, p \in BOOLEAN, o \in BOOLEAN }

ObjectStages(i) ==
    { ObjectFilter_init(StageNames[i], c, p, o) :
        c \in BOOLEAN, p \in BOOLEAN, o \in BOOLEAN }

EventSeqs ==
    UNION { { s \in [1..n -> UNION { EventStages(i) : i \in 1..n }] :
                \A i \in 1..n : s[i] \in EventStages(i) } : n \in 0..MaxStages }

ObjectSeqs ==
    UNION { { s \in [1..n -> UNION { ObjectStages(i) : i \in 1..n }] :
                \A i \in 1..n : s[i] \in ObjectStages(i) } : n \in 0..MaxStages }

EventLists == { [cls |-> "EventFilterList", items |-> s] : s \in EventSeqs }

ObjectLists == { [cls |-> "ObjectFilterList", items |-> s] : s \in ObjectSeqs }

NoCall == [op |-> "none", raised |-> "none"]

Pending == [state |-> "pending"]

NoResults == [ab |-> Pending, ba |-> Pending, bc |-> Pending,
              ab_c |-> Pending, a_bc |-> Pending]

NoOperands == [a |-> <<>>, b |-> <<>>, c |-> <<>>]

NoDriver == [calls |-> 0, accepted |-> 0, objects |-> 0]

(* The parts of the state a specification does not use stay as they are    *)
(* at import time: no snapshot taken, the lock free, no thread inside a    *)
(* context manager.                                                        *)
Unlocked == [owner |-> 0, count |-> 0]

RootDefaults == [batch |-> FALSE, add_directory |-> TRUE, style |-> "Modern"]

SnapUnused == heap = <<>> /\ snaps = <<>>

CtxUnused == LOCK = Unlocked /\ gROOT = RootDefaults /\ threads = <<>>

Init ==
    /\ flist \in EventLists \cup ObjectLists
    /\ driver = NoDriver
    /\ last = NoCall
    /\ opnd = NoOperands
    /\ res = NoResults
    /\ SnapUnused
    /\ CtxUnused

----------------------------------------------------------------------------
(* The driver feeds one event (resp. one event and its collection) into    *)
(* the list.  The objects of a run are numbered in order of arrival: the   *)
(* collection of an event holds the next n objects.                        *)

Events(items) == [1..Len(items) -> BOOLEAN]

EventCall(event) ==
    /\ flist.cls = "EventFilterList"
    /\ driver.calls < MaxCalls
    /\ LET r == EventFilterList_call(flist.items, event)
       IN  /\ flist' = [flist EXCEPT !.items = r.items]
           /\ last' = [op |-> "EventFilterList.__call__",
                       ret |-> r.ret, raised |-> r.raised, trace |-> r.trace]
           /\ driver' = [driver EXCEPT !.calls = @ + 1,
                            !.accepted = IF r.raised = "none" /\ r.ret
                                         THEN @ + 1 ELSE @]
    /\ UNCHANGED <<opnd, res, snapVars, ctxVars>>

EvalEvent ==
    /\ flist.cls = "EventFilterList"
    /\ \E event \in Events(flist.items) : EventCall(event)

Collection(n) == (driver.objects + 1)..(driver.objects + n)

EvalObjects ==
    /\ flist.cls = "ObjectFilterList"
    /\ driver.calls < MaxCalls
    /\ \E n \in 0..(MaxObjs - driver.objects) :
         \E r \in ObjectFilterList_call(flist.items, Collection(n)) :
           /\ flist' = [flist EXCEPT !.items = r.items]
           /\ last' = [op |-> "ObjectFilterList.__call__",
                       collection |-> Collection(n),
                       ret |-> r.ret, raised |-> r.raised, trace |-> r.trace]
           /\ driver' = [driver EXCEPT !.calls = @ + 1, !.objects = @ + n,
                            !.accepted = IF r.raised = "none" /\ r.ret # {}
                                         THEN @ + 1 ELSE @]
    /\ UNCHANGED <<opnd, res, snapVars, ctxVars>>

Next ==
    \/ EvalEvent
    \/ EvalObjects

Spec == Init /\ [][Next]_vars

----------------------------------------------------------------------------
(* Membership of the lists.  IsInstance follows the class hierarchy:       *)
(* EventFilter and ObjectFilter derive from Filter.                        *)

IsInstance(x, cls) ==
    \/ x.kind = cls
    \/ cls = "Filter" /\ x.kind \in {"EventFilter", "ObjectFilter"}

(* FilterList.append *)
FilterList_append(items, filter) ==
    IF ~IsInstance(filter, "Filter")
    THEN [items |-> items, raised |-> "TypeError"]
    ELSE [items |-> Append(items, filter), raised |-> "none"]

(* EventFilterList.append *)
EventFilterList_append(items, filter) ==
    IF ~IsInstance(filter, "EventFilter")
    THEN [items |-> items, raised |-> "TypeError"]
    ELSE FilterList_append(items, filter)

(* ObjectFilterList.append *)
ObjectFilterList_append(items, filter) ==
    IF ~IsInstance(filter, "ObjectFilter")
    THEN [items |-> items, raised |-> "TypeError"]
    ELSE FilterList_append(items, filter)

(* insert is not overridden by any of the three classes: it is the insert  *)
(* of the built-in list, which places the value before position index      *)
(* (counted from 0), at the end when index is past the end.                *)
list_insert(items, index, filter) ==
    LET at == IF index > Len(items) THEN Len(items) ELSE index
    IN  [items |-> SubSeq(items, 1, at) \o <<filter>>
                   \o SubSeq(items, at + 1, Len(items)),
         raised |-> "none"]

(* The item assignment list[index] = filter calls __setitem__(index,       *)
(* filter); the three classes define __setitem__(self, filter), which      *)
(* takes one argument less, so the call raises TypeError before any of     *)
(* its body runs.                                                          *)
FilterList_setitem(items, index, filter) ==
    [items |-> items, raised |-> "TypeError"]

EventFilterList_setitem(items, index, filter) ==
    [items |-> items, raised |-> "TypeError"]

ObjectFilterList_setitem(items, index, filter) ==
    [items |-> items, raised |-> "TypeError"]

ListClasses == {"EventFilterList", "ObjectFilterList"}

StageKind(cls) ==
    IF cls = "EventFilterList" THEN "EventFilter"
    ELSE IF cls = "ObjectFilterList" THEN "ObjectFilter" ELSE "Filter"

append(cls, items, filter) ==
    IF cls = "EventFilterList" THEN EventFilterList_append(items, filter)
    ELSE IF cls = "ObjectFilterList" THEN ObjectFilterList_append(items, filter)
    ELSE FilterList_append(items, filter)

setitem(cls, items, index, filter) ==
    IF cls = "EventFilterList" THEN EventFilterList_setitem(items, index, filter)
    ELSE IF cls = "ObjectFilterList" THEN ObjectFilterList_setitem(items, index, filter)
    ELSE FilterList_setitem(items, index, filter)

(* The stages offered to a list under construction: fresh instances of     *)
(* two event selections and two object selections.                         *)
NewStages ==
    { EventFilter_init(StageNames[i], 0, FALSE, TRUE) : i \in 1..2 } \cup
    { ObjectFilter_init(StageNames[i], FALSE, FALSE, TRUE) : i \in 1..2 }

InitBuild ==
    /\ flist \in { [cls |-> c, items |-> <<>>] : c \in ListClasses }
    /\ driver = NoDriver
    /\ last = NoCall
    /\ opnd = NoOperands
    /\ res = NoResults
    /\ SnapUnused
    /\ CtxUnused

Built(op, index, filter, r) ==
    /\ flist' = [flist EXCEPT !.items = r.items]
    /\ last' = [op |-> op, index |-> index, arg |-> filter, raised |-> r.raised]
    /\ UNCHANGED <<driver, opnd, res, snapVars, ctxVars>>

BuildAppend ==
    /\ Len(flist.items) < MaxStages
    /\ \E filter \in NewStages :
         Built("append", Len(flist.items), filter,
               append(flist.cls, flist.items, filter))

BuildInsert ==
    /\ Len(flist.items) < MaxStages
    /\ \E filter \in NewStages, index \in 0..Len(flist.items) :
         Built("insert", index, filter, list_insert(flist.items, index, filter))

BuildSetItem ==
    \E filter \in NewStages, index \in 0..(Len(flist.items) - 1) :
         Built("setitem", index, filter,
               setitem(flist.cls, flist.items, index, filter))

NextBuild ==
    \/ BuildAppend
    \/ BuildInsert
    \/ BuildSetItem

SpecBuild == InitBuild /\ [][NextBuild]_vars

----------------------------------------------------------------------------
(* Filter.add and Filter.__add__.  The outcome carries the operands as     *)
(* the call leaves them, what the call returns and what it raises.         *)
(* newfilter is the local the method fills in; the method ends without a   *)
(* return statement, so what it returns is None.                           *)

\* A plausible slip: the sums are accumulated into the left operand.
Filter_add_inPlace(left, right) ==
    IF left.name # right.name
    THEN [left |-> left, right |-> right, ret |-> NoneValue,
          raised |-> "ValueError"]
    ELSE IF \E detail \in DOMAIN left.details : detail \notin DOMAIN right.details
    THEN [left |-> left, right |-> right, ret |-> NoneValue,
          raised |-> "KeyError"]
    ELSE [left |-> [left EXCEPT
                      !.total = left.total + right.total,
                      !.passing = left.passing + right.passing,
                      !.details = [detail \in DOMAIN left.details |->
                                     left.details[detail] + right.details[detail]]],
          right |-> right, ret |-> NoneValue, raised |-> "none"]

Filter_add(left, right) ==
    IF left.name # right.name
    THEN [left |-> left, right |-> right, ret |-> NoneValue,
          raised |-> "ValueError"]
    ELSE IF \E detail \in DOMAIN left.details : detail \notin DOMAIN right.details
    THEN [left |-> left, right |-> right, ret |-> NoneValue,
          raised |-> "KeyError"]
    ELSE LET newfilter ==
               [Filter_init("Filter", "Filter", 0, FALSE, FALSE) EXCEPT
                  !.name = left.name,
                  !.total = left.total + right.total,
                  !.passing = left.passing + right.passing,
                  !.details = [detail \in DOMAIN left.details |->
                                 left.details[detail] + right.details[detail]]]
         IN  [left |-> left, right |-> right, ret |-> NoneValue,
              raised |-> "none"]

Filter___add__(self, other) == Filter_add(self, other)

(* f1 + f2: Filter.__add__ when f1 is a Filter; None supports no addition. *)
BinaryAdd(f1, f2) ==
    IF IsInstance(f1, "Filter") THEN Filter___add__(f1, f2)
    ELSE [left |-> f1, right |-> f2, ret |-> NoneValue, raised |-> "TypeError"]

(* FilterList.merge: the loop over zip(list1, list2), from pair i on.      *)
ShorterLen(list1, list2) ==
    IF Len(list1) <= Len(list2) THEN Len(list1) ELSE Len(list2)

RECURSIVE FilterList_merge_loop(_, _, _, _)
FilterList_merge_loop(list1, list2, i, filterlist) ==
    IF i > ShorterLen(list1, list2)
    THEN [list1 |-> list1, list2 |-> list2, ret |-> filterlist, raised |-> "none"]
    ELSE LET sum == BinaryAdd(list1[i], list2[i])
             l1 == [list1 EXCEPT ![i] = sum.left]
             l2 == [list2 EXCEPT ![i] = sum.right]
             added == FilterList_append(filterlist, sum.ret)
         IN  IF sum.raised # "none"
             THEN [list1 |-> l1, list2 |-> l2, ret |-> <<>>, raised |-> sum.raised]
             ELSE IF added.raised # "none"
             THEN [list1 |-> l1, list2 |-> l2, ret |-> <<>>, raised |-> added.raised]
             ELSE FilterList_merge_loop(l1, l2, i + 1, added.items)

FilterList_merge(list1, list2) == FilterList_merge_loop(list1, list2, 1, <<>>)

----------------------------------------------------------------------------
(* The lists handed to merge are the reports of chunks of events: stage i  *)
(* of a report of n stages saw scale * (n - i + 2) inputs and kept         *)
(* scale * (n - i + 1) of them.  A stage carries the name of the i-th      *)
(* selection or of the next one, and no detail or the detail "veto".       *)

DetailKeys == {"veto"}

ReportStage(i, n, scale, name, keys) ==
    [Filter_init("EventFilter", name, 0, FALSE, TRUE) EXCEPT
        !.total = scale * (n - i + 2),
        !.passing = scale * (n - i + 1),
        !.details = [k \in keys |-> scale]]

ReportStages(i, n, scale) ==
    { ReportStage(i, n, scale, StageNames[j], keys) :
        j \in {i, i + 1}, keys \in SUBSET DetailKeys }

Reports(scale) ==
    UNION { { s \in [1..n -> UNION { ReportStages(i, n, scale) : i \in 1..n }] :
                \A i \in 1..n : s[i] \in ReportStages(i, n, scale) } :
            n \in 0..MaxStages }

(* A further chunk of the pipeline that produced report. *)
SameShape(report, scale) ==
    [i \in 1..Len(report) |->
        ReportStage(i, Len(report), scale, report[i].name, DOMAIN report[i].details)]

Done(label) == res[label].state = "done"
Returned(label) == Done(label) /\ res[label].raised = "none"

InitMerge ==
    /\ flist = [cls |-> "FilterList", items |-> <<>>]
    /\ driver = NoDriver
    /\ last = NoCall
    /\ \E sa \in 1..MaxCount, sb \in 1..MaxCount :
         \E a \in Reports(sa), b \in Reports(sb) :
            opnd = [a |-> a, b |-> b, c |-> SameShape(b, 1)]
    /\ res = NoResults
    /\ SnapUnused
    /\ CtxUnused

(* Filter.add applied to the stages at one position of a and b. *)
CombineStages ==
    /\ ~Done("ab")
    /\ \E i \in 1..ShorterLen(opnd.a, opnd.b) :
         LET r == Filter_add(opnd.a[i], opnd.b[i])
         IN  /\ opnd' = [opnd EXCEPT !.a[i] = r.left, !.b[i] = r.right]
             /\ last' = [op |-> "Filter.add", index |-> i,
                         ret |-> r.ret, raised |-> r.raised]
    /\ UNCHANGED <<flist, driver, res, snapVars, ctxVars>>

(* One call of FilterList.merge: label names the call, x and y the fields  *)
(* of opnd the two lists are written back to ("" for an intermediate       *)
(* result).                                                                *)
Merged(label, list1, list2, x, y) ==
    LET r == FilterList_merge(list1, list2)
        o1 == IF x = "" THEN opnd ELSE [opnd EXCEPT ![x] = r.list1]
        o2 == IF y = "" THEN o1 ELSE [o1 EXCEPT ![y] = r.list2]
    IN  /\ res' = [res EXCEPT ![label] =
                     [state |-> "done", ret |-> r.ret, raised |-> r.raised]]
        /\ opnd' = o2
        /\ last' = [op |-> "FilterList.merge", call |-> label, raised |-> r.raised]
        /\ UNCHANGED <<flist, driver, snapVars, ctxVars>>

MergeAB ==
    /\ ~Done("ab")
    /\ Merged("ab", opnd.a, opnd.b, "a", "b")

MergeBA ==
    /\ Done("ab") /\ ~Done("ba")
    /\ Merged("ba", opnd.b, opnd.a, "b", "a")

MergeBC ==
    /\ Done("ba") /\ ~Done("bc")
    /\ Merged("bc", opnd.b, opnd.c, "b", "c")

MergeAB_C ==
    /\ Done("bc") /\ Returned("ab") /\ ~Done("ab_c")
    /\ Merged("ab_c", res.ab.ret, opnd.c, "", "c")

MergeA_BC ==
    /\ Done("bc") /\ Returned("bc") /\ ~Done("a_bc")
    /\ Returned("ab") => Done("ab_c")
    /\ Merged("a_bc", opnd.a, res.bc.ret, "a", "")

NextMerge ==
    \/ CombineStages
    \/ MergeAB
    \/ MergeBA
    \/ MergeBC
    \/ MergeAB_C
    \/ MergeA_BC

SpecMerge == InitMerge /\ [][NextMerge]_vars

----------------------------------------------------------------------------
(* Filter.__getstate__ / __setstate__ and FilterList.basic.  A Python dict *)
(* is an object: two names may refer to the same dict.  Here the details   *)
(* attribute of a stage holds a reference into heap, and an update in      *)
(* place of a dict is an update of heap.                                   *)

MaxSnaps == 2       \* snapshots taken in one run

Ref(id) == [ref |-> id]

Deref(h, r) == h[r.ref]

DictGet(d, k, default) == IF k \in DOMAIN d THEN d[k] ELSE default

DictSet(d, k, v) == [x \in DOMAIN d \cup {k} |-> IF x = k THEN v ELSE d[x]]

Filter_getstate(self) ==
    [name |-> self.name, total |-> self.total, passing |-> self.passing,
     details |-> self.details]

Filter_setstate(self, state) ==
    [self EXCEPT !.name = state.name, !.total = state.total,
                 !.passing = state.passing, !.details = state.details]

FilterList_basic(items) == [i \in 1..Len(items) |-> Filter_getstate(items[i])]

(* What a snapshot holds when it is read: its details are read through    *)
(* the reference it carries.                                               *)
Held(h, state) ==
    [name |-> state.name, total |-> state.total, passing |-> state.passing,
     details |-> Deref(h, state.details)]

(* A run starts from an EventFilterList of freshly constructed stages,     *)
(* each with its own empty details dict.                                   *)
SnapStage(i) ==
    [EventFilter_init(StageNames[i], 0, FALSE, TRUE) EXCEPT !.details = Ref(i)]

InitSnap ==
    /\ \E n \in 1..MaxStages :
          /\ flist = [cls |-> "EventFilterList", items |-> [i \in 1..n |-> SnapStage(i)]]
          /\ heap = [i \in 1..n |-> EmptyDict]
    /\ driver = NoDriver
    /\ last = NoCall
    /\ opnd = NoOperands
    /\ res = NoResults
    /\ snaps = <<>>
    /\ CtxUnused

(* One more operation of the run. *)
Called == driver' = [driver EXCEPT !.calls = @ + 1]

(* filter.__getstate__() on stage i. *)
TakeSnapshot ==
    /\ driver.calls < MaxCalls
    /\ Len(snaps) < MaxSnaps
    /\ \E i \in 1..Len(flist.items) :
          /\ snaps' = Append(snaps, Filter_getstate(flist.items[i]))
          /\ last' = [op |-> "Filter.__getstate__", index |-> i, raised |-> "none"]
    /\ Called
    /\ UNCHANGED <<flist, opnd, res, heap, ctxVars>>

(* flist.basic() *)
TakeSnapshots ==
    /\ driver.calls < MaxCalls
    /\ Len(snaps) + Len(flist.items) <= MaxSnaps
    /\ snaps' = snaps \o FilterList_basic(flist.items)
    /\ last' = [op |-> "FilterList.basic", raised |-> "none"]
    /\ Called
    /\ UNCHANGED <<flist, opnd, res, heap, ctxVars>>

(* The concrete class of stage i increments its sub-counter k:             *)
(* self.details[k] = self.details.get(k, 0) + 1                            *)
CountDetail ==
    /\ driver.calls < MaxCalls
    /\ \E i \in 1..Len(flist.items), k \in DetailKeys :
          LET id == flist.items[i].details.ref
              n == DictGet(heap[id], k, 0)
          IN  /\ n < MaxCount
              /\ heap' = [heap EXCEPT ![id] = DictSet(@, k, n + 1)]
              /\ last' = [op |-> "details", index |-> i, raised |-> "none"]
    /\ Called
    /\ UNCHANGED <<flist, opnd, res, snaps, ctxVars>>

(* stage i.__setstate__(snapshot k) *)
Restore ==
    /\ driver.calls < MaxCalls
    /\ \E i \in 1..Len(flist.items), k \in 1..Len(snaps) :
          /\ flist' = [flist EXCEPT !.items[i] = Filter_setstate(@, snaps[k])]
          /\ last' = [op |-> "Filter.__setstate__", index |-> i, raised |-> "none"]
    /\ Called
    /\ UNCHANGED <<opnd, res, snapVars, ctxVars>>

NextSnap ==
    \/ EvalEvent
    \/ TakeSnapshot
    \/ TakeSnapshots
    \/ CountDetail
    \/ Restore

SpecSnap == InitSnap /\ [][NextSnap]_vars

----------------------------------------------------------------------------
(* rootpy/context.py: the context managers that save and restore a         *)
(* process-wide ROOT setting under the reentrant lock LOCK.  A thread is   *)
(* inside a stack of such blocks; a frame of the stack records the         *)
(* manager, its argument, the value it saved and where the thread is in    *)
(* it: "acquire" (at `with LOCK:`), "locked" (lock held, nothing read      *)
(* yet), "body" (at the yield), "finally" (the body has ended, normally or *)
(* by an exception) and "unlock" (the saved value is restored, the lock    *)
(* not yet released).  Threads call SetBatch only inside a                 *)
(* preserve_batch_state block.                                             *)

MaxThreads == 2     \* threads of the process
MaxDepth == 2       \* nesting depth of the blocks of one thread

Threads == 1..MaxThreads

ContextManagers ==
    {"preserve_batch_state", "preserve_current_style",
     "preserve_set_th1_add_directory"}

Styles == {"Modern", "Plain"}

\* A plausible slip: LOCK = threading.Lock(), which its owner cannot re-enter.
Lock_available(lock, t) == lock.owner = 0

(* threading.RLock: acquire blocks unless the lock is free or the caller   *)
(* owns it; release gives it up once every acquire has been matched.       *)
RLock_available(lock, t) == lock.owner = 0 \/ lock.owner = t

RLock_acquire(lock, t) == [owner |-> t, count |-> lock.count + 1]

RLock_release(lock) ==
    IF lock.count = 1 THEN Unlocked ELSE [lock EXCEPT !.count = @ - 1]

Top(t) == threads[t].stack[Len(threads[t].stack)]

At(t, pc) == threads[t].stack # <<>> /\ Top(t).pc = pc

Inside(t, cm) ==
    \E d \in 1..Len(threads[t].stack) :
        /\ threads[t].stack[d].cm = cm
        /\ threads[t].stack[d].pc = "body"

SetTop(t, frame) ==
    [threads EXCEPT ![t].stack[Len(threads[t].stack)] = frame]

InitCtx ==
    /\ flist = [cls |-> "FilterList", items |-> <<>>]
    /\ driver = NoDriver
    /\ last = NoCall
    /\ opnd = NoOperands
    /\ res = NoResults
    /\ SnapUnused
    /\ LOCK = Unlocked
    /\ \E b \in BOOLEAN : gROOT = [RootDefaults EXCEPT !.batch = b]
    /\ threads = [t \in Threads |-> [stack |-> <<>>, exc |-> FALSE]]

filterVars == <<flist, driver, last, opnd, res>>

(* The thread reaches a `with cm(state):` statement. *)
Enter(t) ==
    /\ Len(threads[t].stack) < MaxDepth
    /\ threads[t].stack = <<>> \/ At(t, "body")
    /\ \E cm \in ContextManagers, state \in BOOLEAN :
          /\ cm # "preserve_set_th1_add_directory" => state = TRUE
          /\ threads' = [threads EXCEPT ![t].stack =
                            Append(@, [cm |-> cm, state |-> state,
                                       old |-> NoneValue, pc |-> "acquire"])]
    /\ UNCHANGED <<filterVars, snapVars, LOCK, gROOT>>

(* with LOCK: *)
Acquire(t) ==
    /\ At(t, "acquire")
    /\ RLock_available(LOCK, t)
    /\ LOCK' = RLock_acquire(LOCK, t)
    /\ threads' = SetTop(t, [Top(t) EXCEPT !.pc = "locked"])
    /\ UNCHANGED <<filterVars, snapVars, gROOT>>

(* old = ROOT.gROOT.IsBatch()  /  old = ROOT.gStyle  /                     *)
(* status = ROOT.TH1.AddDirectoryStatus(); ROOT.TH1.AddDirectory(state)    *)
Save(t) ==
    /\ At(t, "locked")
    /\ LET cm == Top(t).cm
           old == IF cm = "preserve_batch_state" THEN gROOT.batch
                  ELSE IF cm = "preserve_current_style" THEN gROOT.style
                  ELSE gROOT.add_directory
       IN  /\ threads' = SetTop(t, [Top(t) EXCEPT !.old = old, !.pc = "body"])
           /\ gROOT' = IF cm = "preserve_set_th1_add_directory"
                       THEN [gROOT EXCEPT !.add_directory = Top(t).state]
                       ELSE gROOT
    /\ UNCHANGED <<filterVars, snapVars, LOCK>>

(* ROOT.gROOT.SetBatch(batch) in the body of a preserve_batch_state block *)
SetBatch(t) ==
    /\ At(t, "body")
    /\ Inside(t, "preserve_batch_state")
    /\ \E batch \in BOOLEAN : gROOT' = [gROOT EXCEPT !.batch = batch]
    /\ UNCHANGED <<filterVars, snapVars, LOCK, threads>>

(* ROOT.gROOT.SetStyle(name) in the body of a preserve_current_style block *)
SetStyle(t) ==
    /\ At(t, "body")
    /\ Inside(t, "preserve_current_style")
    /\ \E name \in Styles : gROOT' = [gROOT EXCEPT !.style = name]
    /\ UNCHANGED <<filterVars, snapVars, LOCK, threads>>

(* The body of the innermost block raises. *)
Raise(t) ==
    /\ At(t, "body")
    /\ threads' = [SetTop(t, [Top(t) EXCEPT !.pc = "finally"]) EXCEPT ![t].exc = TRUE]
    /\ UNCHANGED <<filterVars, snapVars, LOCK, gROOT>>

(* The body of the innermost block ends. *)
Leave(t) ==
    /\ At(t, "body")
    /\ threads' = SetTop(t, [Top(t) EXCEPT !.pc = "finally"])
    /\ UNCHANGED <<filterVars, snapVars, LOCK, gROOT>>

(* finally: SetBatch(old) / SetStyle(old.GetName()) / AddDirectory(status) *)
Finally(t) ==
    /\ At(t, "finally")
    /\ LET cm == Top(t).cm
       IN  gROOT' = IF cm = "preserve_batch_state"
                    THEN [gROOT EXCEPT !.batch = Top(t).old]
                    ELSE IF cm = "preserve_current_style"
                    THEN [gROOT EXCEPT !.style = Top(t).old]
                    ELSE [gROOT EXCEPT !.add_directory = Top(t).old]
    /\ threads' = SetTop(t, [Top(t) EXCEPT !.pc = "unlock"])
    /\ UNCHANGED <<filterVars, snapVars, LOCK>>

(* The end of `with LOCK:`.  An exception goes on to the enclosing block,  *)
(* whose body it ends; it leaves the outermost block to the caller.        *)
Release(t) ==
    /\ At(t, "unlock")
    /\ LOCK' = RLock_release(LOCK)
    /\ LET n == Len(threads[t].stack)
           rest == SubSeq(threads[t].stack, 1, n - 1)
       IN  threads' = [threads EXCEPT ![t] =
              IF rest = <<>> THEN [stack |-> <<>>, exc |-> FALSE]
              ELSE IF threads[t].exc
              THEN [stack |-> [rest EXCEPT ![n - 1].pc = "finally"], exc |-> TRUE]
              ELSE [stack |-> rest, exc |-> FALSE]]
    /\ UNCHANGED <<filterVars, snapVars, gROOT>>

ThreadStep(t) ==
    \/ Enter(t)
    \/ Acquire(t)
    \/ Save(t)
    \/ SetBatch(t)
    \/ SetStyle(t)
    \/ Raise(t)
    \/ Leave(t)
    \/ Finally(t)
    \/ Release(t)

NextCtx == \E t \in Threads : ThreadStep(t)

SpecCtx == InitCtx /\ [][NextCtx]_vars

----------------------------------------------------------------------------
(* Properties of the evaluation of lists (specification Spec)              *)

Min(S) == CHOOSE x \in S : \A y \in S : x <= y

IsEventList == flist.cls = "EventFilterList"
IsObjectList == flist.cls = "ObjectFilterList"

(* C1: in an EventFilterList whose stage sequence is fixed, after any      *)
(* sequence of events the first stage's total is the number of events      *)
(* submitted and every later stage's total is the passing of the stage     *)
(* before it; for a non-empty list, list.total is the number submitted and *)
(* list.passing the number of events the list accepted.                    *)
C1_TotalsChain ==
    IsEventList =>
        LET items == flist.items
            N == Len(items)
        IN  /\ N >= 1 => items[1].total = driver.calls
            /\ \A i \in 2..N : items[i].total = items[i - 1].passing
            /\ N >= 1 => /\ FilterList_total(items) = driver.calls
                         /\ FilterList_passing(items) = driver.accepted

C1_Witness ==
    /\ IsEventList
    /\ Len(flist.items) = 2
    /\ driver.calls >= 3
    /\ flist.items[1].passing < flist.items[1].total
    /\ flist.items[2].passing < flist.items[2].total
    /\ flist.items[2].passing >= 1

(* C2: every stage of either kind, in either counting mode, with or        *)
(* without passthrough, always has 0 <= passing <= total.                  *)
C2_PassingWithinTotal ==
    \A i \in 1..Len(flist.items) :
        /\ 0 <= flist.items[i].passing
        /\ flist.items[i].passing <= flist.items[i].total

C2_Witness ==
    /\ IsObjectList
    /\ \E i \in 1..Len(flist.items) :
          /\ flist.items[i].count_events
          /\ flist.items[i].passing >= 1
          /\ flist.items[i].passing < flist.items[i].total
    /\ \E i \in 1..Len(flist.items) :
          /\ ~flist.items[i].count_events
          /\ flist.items[i].passing >= 2
          /\ flist.items[i].passing < flist.items[i].total

(* C3: when an event is evaluated through an EventFilterList and stage k   *)
(* is the first stage to reject it, the list answers false and the         *)
(* counters and hooks of the stages after k are untouched by the call; the *)
(* list answers true only if every stage answered true.                    *)
StageRejects(stage, ans) == ~stage.passthrough /\ stage.overrides /\ ~ans
StageRaises(stage) == ~stage.passthrough /\ ~stage.overrides

C3_ShortCircuit ==
    [][ \A event \in Events(flist.items) :
          EventCall(event) =>
            LET items == flist.items
                N == Len(items)
                Stops == { k \in 1..N : StageRejects(items[k], event[k])
                                        \/ StageRaises(items[k]) }
            IN  /\ (Stops # {} /\ StageRejects(items[Min(Stops)], event[Min(Stops)])) =>
                     /\ last'.raised = "none"
                     /\ last'.ret = FALSE
                     /\ \A j \in (Min(Stops) + 1)..N :
                          /\ flist'.items[j] = items[j]
                          /\ \A t \in 1..Len(last'.trace) : last'.trace[t].st # j
                /\ (last'.raised = "none" /\ last'.ret) =>
                     \A i \in 1..N :
                          /\ items[i].passthrough \/ event[i]
                          /\ flist'.items[i].passing = items[i].passing + 1
      ]_vars

C3_Witness ==
    /\ IsEventList
    /\ Len(flist.items) = 2
    /\ last.op = "EventFilterList.__call__"
    /\ last.raised = "none" /\ ~last.ret
    /\ \A t \in 1..Len(last.trace) : last.trace[t].st = 1
    /\ flist.items[2].hooks >= 1
    /\ flist.items[2].total >= 1
    /\ flist.items[2].total < flist.items[1].total

(* C4: when a collection is evaluated through an ObjectFilterList and the  *)
(* working collection becomes empty after stage k, the call returns an     *)
(* empty collection and the counters of the stages after k are untouched;  *)
(* otherwise the call returns the output of the last stage, each stage     *)
(* having received the output of the stage before it.                      *)
C4_Narrowing ==
    [][ EvalObjects =>
          LET items == flist.items
              N == Len(items)
              tr == last'.trace
              Empties == { k \in 1..Len(tr) : tr[k].out = {} }
          IN  /\ \A i \in 1..Len(tr) :
                   /\ tr[i].st = i
                   /\ tr[i].in = IF i = 1 THEN last'.collection ELSE tr[i - 1].out
                   /\ flist'.items[i].total - items[i].total =
                        IF items[i].count_events THEN 1 ELSE Cardinality(tr[i].in)
              /\ Empties # {} =>
                   /\ last'.ret = {}
                   /\ Len(tr) = Min(Empties)
                   /\ \A j \in (Min(Empties) + 1)..N : flist'.items[j] = items[j]
              /\ (Empties = {} /\ last'.raised = "none") =>
                   /\ Len(tr) = N
                   /\ last'.ret = IF N = 0 THEN last'.collection ELSE tr[N].out
      ]_vars

C4_Witness ==
    /\ IsObjectList
    /\ Len(flist.items) = 2
    /\ last.op = "ObjectFilterList.__call__"
    /\ Len(last.trace) = 1
    /\ last.trace[1].in # {} /\ last.trace[1].out = {}
    /\ last.ret = {}
    /\ flist.items[2].count_events
    /\ flist.items[2].total >= 1

----------------------------------------------------------------------------
(* Properties of the construction of lists (specification SpecBuild)       *)

(* C9: after any sequence of append, insert and item assignment on an      *)
(* EventFilterList (resp. ObjectFilterList) every member is an EventFilter *)
(* (resp. ObjectFilter), and an attempt to add a stage of the wrong kind   *)
(* has failed with TypeError.                                              *)
C9_TypeConstrained ==
    /\ \A i \in 1..Len(flist.items) :
          IsInstance(flist.items[i], StageKind(flist.cls))
    /\ (last.op \in {"append", "insert", "setitem"}
          /\ ~IsInstance(last.arg, StageKind(flist.cls)))
       => last.raised = "TypeError"

----------------------------------------------------------------------------
(* Properties of merge (specification SpecMerge)                           *)

SameLength(l1, l2) == Len(l1) = Len(l2)

SameNames(l1, l2) ==
    SameLength(l1, l2) /\ \A i \in 1..Len(l1) : l1[i].name = l2[i].name

SameKeys(l1, l2) ==
    SameLength(l1, l2) /\
    \A i \in 1..Len(l1) : DOMAIN l1[i].details = DOMAIN l2[i].details

IsSumOf(f, x, y) ==
    /\ IsInstance(f, "Filter")
    /\ f.name = x.name
    /\ f.total = x.total + y.total
    /\ f.passing = x.passing + y.passing
    /\ DOMAIN f.details = DOMAIN x.details
    /\ \A k \in DOMAIN f.details : f.details[k] = x.details[k] + y.details[k]

SameCounters(l1, l2) ==
    /\ SameLength(l1, l2)
    /\ \A i \in 1..Len(l1) :
          /\ IsInstance(l1[i], "Filter") /\ IsInstance(l2[i], "Filter")
          /\ l1[i].total = l2[i].total
          /\ l1[i].passing = l2[i].passing
          /\ l1[i].details = l2[i].details

(* C5: for two lists of equal length whose stages have equal names and     *)
(* equal details key sets at every position, merge returns a list of the   *)
(* same length whose i-th stage carries the name of the i-th stages and    *)
(* the sums of their totals, passings and details.                         *)
C5_MergeSums ==
    (Done("ab") /\ SameNames(opnd.a, opnd.b) /\ SameKeys(opnd.a, opnd.b)) =>
        /\ res.ab.raised = "none"
        /\ Len(res.ab.ret) = Len(opnd.a)
        /\ \A i \in 1..Len(opnd.a) : IsSumOf(res.ab.ret[i], opnd.a[i], opnd.b[i])

(* C6: for lists a, b, c with the same stage names (and detail keys),      *)
(* merge(a, b) and merge(b, a) carry equal counters, and so do             *)
(* merge(merge(a, b), c) and merge(a, merge(b, c)).                        *)
C6_MergeCommutesAssociates ==
    (/\ SameNames(opnd.a, opnd.b) /\ SameKeys(opnd.a, opnd.b)
     /\ SameNames(opnd.b, opnd.c) /\ SameKeys(opnd.b, opnd.c)) =>
        /\ Done("ba") =>
              /\ Returned("ab") /\ Returned("ba")
              /\ SameCounters(res.ab.ret, res.ba.ret)
        /\ Done("bc") => Returned("bc")
        /\ (Done("ab_c") /\ Done("a_bc")) =>
              /\ Returned("ab_c") /\ Returned("a_bc")
              /\ SameCounters(res.ab_c.ret, res.a_bc.ret)

(* C7: merge of two lists of different lengths fails (with an error about  *)
(* the lengths) and returns no list, also when one of them is empty.       *)
C7_LengthMismatchFails ==
    (Done("ab") /\ ~SameLength(opnd.a, opnd.b)) => res.ab.raised # "none"

(* C8: combining two stages of equal names whose details key sets differ,  *)
(* in either direction, fails with the error about the keys.               *)
C8_KeyMismatchFails ==
    (/\ last.op = "Filter.add"
     /\ opnd.a[last.index].name = opnd.b[last.index].name
     /\ DOMAIN opnd.a[last.index].details # DOMAIN opnd.b[last.index].details)
    => last.raised = "KeyError"

(* C10: merge of two lists of equal length (and equal detail keys) whose   *)
(* stage names differ at some position fails with the error about the      *)
(* names, whatever the position of the first difference.                   *)
C10_NameMismatchFails ==
    (/\ Done("ab")
     /\ SameLength(opnd.a, opnd.b) /\ SameKeys(opnd.a, opnd.b)
     /\ ~SameNames(opnd.a, opnd.b))
    => res.ab.raised = "ValueError"

----------------------------------------------------------------------------
(* Properties of one stage's evaluation (specification Spec)               *)

(* Stage i of the list is invoked for the event exactly when every stage   *)
(* before it lets the event through.                                       *)
StagePasses(stage, ans) == stage.passthrough \/ (stage.overrides /\ ans)

Reached(items, event, i) == \A j \in 1..(i - 1) : StagePasses(items[j], event[j])

StageTrace(trace, i) == SelectSeq(trace, LAMBDA e : e.st = i)

(* C11: an EventFilter with passthrough set answers true for every event   *)
(* whatever its predicate would answer, never invokes the predicate, and   *)
(* still adds exactly 1 to total and exactly 1 to passing per event.       *)
C11_EventPassthrough ==
    [][ \A event \in Events(flist.items) :
          EventCall(event) =>
            LET items == flist.items
                N == Len(items)
            IN  \A i \in 1..N :
                  (items[i].passthrough /\ Reached(items, event, i)) =>
                    /\ flist'.items[i].total = items[i].total + 1
                    /\ flist'.items[i].passing = items[i].passing + 1
                    /\ \A t \in 1..Len(last'.trace) :
                          last'.trace[t].st = i => last'.trace[t].ev # "passes"
                    /\ i < N => flist'.items[i + 1].total = items[i + 1].total + 1
                    /\ i = N => last'.raised = "none" /\ last'.ret = TRUE
      ]_vars

C11_Witness ==
    /\ IsEventList
    /\ Len(flist.items) = 2
    /\ last.op = "EventFilterList.__call__"
    /\ flist.items[1].passthrough /\ ~flist.items[1].overrides
    /\ flist.items[2].passthrough /\ flist.items[2].overrides
    /\ last.raised = "none" /\ last.ret = TRUE
    /\ flist.items[2].passing >= 2

(* C12: one ObjectFilter evaluation changes the counters as its mode       *)
(* says.  With count_events, total grows by 1 whatever the size of the     *)
(* collection and passing grows by 1 iff the narrowed collection is not    *)
(* empty; without it, total grows by the size of the input collection and  *)
(* passing by the size of the narrowed collection.                         *)
C12_CountingModes ==
    [][ EvalObjects =>
          LET items == flist.items
              tr == last'.trace
          IN  \A i \in 1..Len(tr) :
                LET before == items[tr[i].st]
                    after == flist'.items[tr[i].st]
                IN  tr[i].raised = "none" =>
                      IF before.count_events
                      THEN /\ after.total = before.total + 1
                           /\ after.passing =
                                before.passing + (IF tr[i].out # {} THEN 1 ELSE 0)
                      ELSE /\ after.total = before.total + Cardinality(tr[i].in)
                           /\ after.passing = before.passing + Cardinality(tr[i].out)
      ]_vars

C12_Witness ==
    /\ IsObjectList
    /\ last.op = "ObjectFilterList.__call__"
    /\ Len(last.trace) = 2
    /\ ~flist.items[1].count_events /\ ~flist.items[1].passthrough
    /\ flist.items[2].count_events /\ ~flist.items[2].passthrough
    /\ Cardinality(last.trace[1].in) = 3 /\ Cardinality(last.trace[1].out) = 2
    /\ Cardinality(last.trace[2].out) = 2
    /\ flist.items[1].total = 3 /\ flist.items[1].passing = 2
    /\ flist.items[2].total = 1 /\ flist.items[2].passing = 1

(* C13: an ObjectFilter with passthrough set returns the collection it is  *)
(* given unmodified without invoking the narrowing method, and updates     *)
(* total and passing per its counting mode with that collection as both    *)
(* input and output (in default mode both grow by the same amount).        *)
C13_ObjectPassthrough ==
    [][ EvalObjects =>
          LET items == flist.items
              tr == last'.trace
          IN  /\ \A i \in 1..Len(tr) :
                   LET before == items[tr[i].st]
                       after == flist'.items[tr[i].st]
                       size == Cardinality(tr[i].in)
                   IN  before.passthrough =>
                         /\ tr[i].raised = "none"
                         /\ ~tr[i].narrowed
                         /\ tr[i].out = tr[i].in
                         /\ after.total - before.total =
                               IF before.count_events THEN 1 ELSE size
                         /\ after.passing - before.passing =
                               IF before.count_events
                               THEN (IF size > 0 THEN 1 ELSE 0) ELSE size
              /\ (\A i \in 1..Len(items) : items[i].passthrough) =>
                   /\ last'.raised = "none"
                   /\ last'.ret = last'.collection
      ]_vars

C13_Witness ==
    /\ IsObjectList
    /\ last.op = "ObjectFilterList.__call__"
    /\ Len(last.trace) = 2
    /\ flist.items[1].passthrough /\ ~flist.items[1].count_events
    /\ ~flist.items[1].overrides
    /\ flist.items[2].passthrough /\ flist.items[2].count_events
    /\ Cardinality(last.collection) = 2
    /\ last.ret = last.collection
    /\ flist.items[1].total = 3 /\ flist.items[1].passing = 3
    /\ flist.items[2].total = 2 /\ flist.items[2].passing = 2

(* C14: in one EventFilter evaluation, if the event passes then every      *)
(* registered hook is invoked exactly once, in registration order, and all *)
(* of them before passing is incremented; if the event fails then no hook  *)
(* is invoked and passing is unchanged.                                    *)
IsHook(e) == e.ev = "hook"

C14_HooksBeforePassing ==
    [][ \A event \in Events(flist.items) :
          EventCall(event) =>
            LET items == flist.items
            IN  \A i \in 1..Len(items) :
                  LET st == StageTrace(last'.trace, i)
                      hooked == SelectSeq(st, IsHook)
                  IN  Reached(items, event, i) =>
                        IF StagePasses(items[i], event[i])
                        THEN /\ Len(hooked) = items[i].hooks
                             /\ \A j \in 1..Len(hooked) : hooked[j].h = j
                             /\ Len(st) >= 1 /\ st[Len(st)].ev = "passing"
                             /\ \A t \in 1..(Len(st) - 1) : st[t].ev # "passing"
                             /\ flist'.items[i].passing = items[i].passing + 1
                        ELSE /\ hooked = <<>>
                             /\ flist'.items[i].passing = items[i].passing
      ]_vars

C14_Witness ==
    /\ IsEventList
    /\ Len(flist.items) = 2
    /\ last.op = "EventFilterList.__call__"
    /\ \A i \in 1..2 : /\ flist.items[i].hooks = MaxHooks
                        /\ ~flist.items[i].passthrough
                        /\ flist.items[i].overrides
    /\ last.raised = "none" /\ ~last.ret
    /\ Len(SelectSeq(StageTrace(last.trace, 1), IsHook)) = MaxHooks
    /\ StageTrace(last.trace, 2) # <<>>
    /\ SelectSeq(StageTrace(last.trace, 2), IsHook) = <<>>
    /\ flist.items[2].passing >= 1

(* Stage i was invoked by the last call of the list; it is the stage the   *)
(* call's NotImplementedError came from.                                   *)
IsListCall == last.op \in {"EventFilterList.__call__", "ObjectFilterList.__call__"}

Invoked(i) == \E t \in 1..Len(last.trace) : last.trace[t].st = i

StageFailed(i) ==
    /\ last.raised = "NotImplementedError"
    /\ last.trace # <<>>
    /\ last.trace[Len(last.trace)].st = i

(* C16 (as stated): every EventFilter whose class does not override passes *)
(* fails with NotImplementedError on its first evaluation, whatever its    *)
(* passthrough setting; the same for an ObjectFilter that does not         *)
(* override filtered.                                                      *)
C16_UnimplementedAlways ==
    IsListCall =>
        \A i \in 1..Len(flist.items) :
            (Invoked(i) /\ ~flist.items[i].overrides) => StageFailed(i)

(* C16 (amended): a stage whose class does not override passes / filtered  *)
(* fails with NotImplementedError on every evaluation, the first included, *)
(* exactly when passthrough is not set; with passthrough set the method is *)
(* not invoked and the evaluation succeeds.  A stage whose class overrides *)
(* the method never fails so.                                              *)
C16_UnimplementedUnlessPassthrough ==
    IsListCall =>
        \A i \in 1..Len(flist.items) :
            Invoked(i) =>
                (StageFailed(i) <=>
                    (~flist.items[i].overrides /\ ~flist.items[i].passthrough))

C16_Witness ==
    /\ IsListCall
    /\ Len(flist.items) = 2
    /\ ~flist.items[1].overrides /\ flist.items[1].passthrough
    /\ ~flist.items[2].overrides /\ ~flist.items[2].passthrough
    /\ Invoked(1) /\ ~StageFailed(1)
    /\ StageFailed(2)
    /\ flist.items[2].total = 1 /\ flist.items[2].passing = 0
    /\ flist.items[1].passing = 1

----------------------------------------------------------------------------
(* Properties of the counters of an ObjectFilterList (specification Spec)  *)

(* Every stage of the list narrows: it returns a sub-collection of what it *)
(* is given (the overridden filtered, or the collection itself under       *)
(* passthrough).                                                           *)
AllNarrow ==
    \A i \in 1..Len(flist.items) :
        flist.items[i].overrides \/ flist.items[i].passthrough

(* C19 (as stated): in an ObjectFilterList whose stages all narrow, after  *)
(* any sequence of evaluations the total of every stage after the first    *)
(* equals the passing of the stage before it, whatever count_events mode   *)
(* each stage uses, mixed lists included.                                  *)
C19_ObjectTotalsChain ==
    (IsObjectList /\ AllNarrow) =>
        \A i \in 2..Len(flist.items) :
            flist.items[i].total = flist.items[i - 1].passing

(* C19 (amended): the total of a stage equals the passing of the stage     *)
(* before it when the two stages use the same count_events mode; when a    *)
(* stage counting events follows a stage counting objects its total is at  *)
(* most that passing, and in the opposite order at least that passing.     *)
C19_ObjectTotalsChainSameMode ==
    IsObjectList =>
        \A i \in 2..Len(flist.items) :
            LET prev == flist.items[i - 1]
                this == flist.items[i]
            IN  /\ this.count_events = prev.count_events =>
                      this.total = prev.passing
                /\ (this.count_events /\ ~prev.count_events) =>
                      this.total <= prev.passing
                /\ (~this.count_events /\ prev.count_events) =>
                      this.total >= prev.passing

C19_Witness ==
    /\ IsObjectList /\ AllNarrow
    /\ Len(flist.items) = 2
    /\ driver.calls >= 2
    /\ flist.items[1].count_events /\ flist.items[2].count_events
    /\ flist.items[1].total = 3
    /\ flist.items[1].passing = 2
    /\ flist.items[2].total = 2
    /\ flist.items[2].passing = 1

(* C20 (as stated): evaluating an ObjectFilterList with an empty input     *)
(* collection leaves the counters of every stage unchanged and returns an  *)
(* empty collection (stated for lists whose stages all narrow).            *)
C20_EmptyInputUntouched ==
    [][ (EvalObjects /\ last'.collection = {} /\ AllNarrow) =>
          /\ flist' = flist
          /\ last'.raised = "none"
          /\ last'.ret = {}
      ]_vars

(* C20 (amended): evaluating an ObjectFilterList with an empty input       *)
(* collection invokes the first stage, and only it, on the empty           *)
(* collection: that stage's total grows by 1 if it counts events and is    *)
(* unchanged otherwise, its passing is unchanged, the stages after it are  *)
(* untouched, and the call returns an empty collection, unless the first   *)
(* stage's class does not override filtered and passthrough is not set,    *)
(* in which case the call fails with NotImplementedError.                  *)
C20_EmptyInputFirstStageOnly ==
    [][ (EvalObjects /\ last'.collection = {}) =>
          LET items == flist.items
              N == Len(items)
              tr == last'.trace
          IN  IF N = 0
              THEN tr = <<>> /\ last'.raised = "none" /\ last'.ret = {}
              ELSE /\ Len(tr) = 1 /\ tr[1].st = 1 /\ tr[1].in = {}
                   /\ flist'.items[1].total =
                        items[1].total + (IF items[1].count_events THEN 1 ELSE 0)
                   /\ flist'.items[1].passing = items[1].passing
                   /\ \A j \in 2..N : flist'.items[j] = items[j]
                   /\ last'.ret = {}
                   /\ last'.raised =
                        IF ~items[1].overrides /\ ~items[1].passthrough
                        THEN "NotImplementedError" ELSE "none"
      ]_vars

C20_Witness ==
    /\ IsObjectList
    /\ Len(flist.items) = 2
    /\ last.op = "ObjectFilterList.__call__"
    /\ last.collection = {}
    /\ last.raised = "none" /\ last.ret = {}
    /\ Len(last.trace) = 1
    /\ flist.items[1].count_events /\ flist.items[1].overrides
    /\ flist.items[1].total = 2 /\ flist.items[1].passing = 1
    /\ flist.items[2].total = 1

----------------------------------------------------------------------------
(* Frame of merge (specification SpecMerge)                                *)

(* C17: a merge call, whether it succeeds or fails, leaves both operand    *)
(* lists unchanged: the same stages in the same order, every stage's name, *)
(* total, passing and details as before the call (and so does the          *)
(* combination of two stages).                                             *)
C17_MergeKeepsOperands ==
    [][ NextMerge => opnd' = opnd ]_vars

C17_Witness ==
    /\ Returned("ab") /\ Returned("ba")
    /\ Done("bc") /\ res.bc.raised = "TypeError"
    /\ opnd.a = <<>>
    /\ Len(opnd.b) = 2 /\ Len(opnd.c) = 2
    /\ opnd.b[1].total >= 2
    /\ DOMAIN opnd.b[1].details = DetailKeys

----------------------------------------------------------------------------
(* Snapshots (specification SpecSnap)                                      *)

(* C15: a snapshot of a stage is an immutable capture: once taken, no      *)
(* later evaluation of the stage and no later update of its total,         *)
(* passing or details sub-counters changes the name, total, passing or     *)
(* details held in the snapshot; the same for every element of the result  *)
(* of basic().                                                             *)
C15_SnapshotImmutable ==
    [][ \A k \in 1..Len(snaps) :
          /\ k <= Len(snaps')
          /\ Held(heap', snaps'[k]) = Held(heap, snaps[k])
      ]_vars

----------------------------------------------------------------------------
(* The context managers (specification SpecCtx)                            *)

Waiting(t) == At(t, "acquire") /\ ~ENABLED Acquire(t)

(* C18: with threads that change the batch state only inside               *)
(* preserve_batch_state blocks, possibly nested with the other managers    *)
(* sharing LOCK, in every interleaving the batch state at the exit of a    *)
(* block is the one the block read on entry, also when the body raised,    *)
(* and no thread deadlocks on the lock: a thread that cannot move waits    *)
(* for the lock, which another thread holds and that thread can move.      *)
C18_BatchRestoredNoDeadlock ==
    \A t \in Threads :
        /\ (At(t, "unlock") /\ Top(t).cm = "preserve_batch_state") =>
              gROOT.batch = Top(t).old
        /\ ~ENABLED ThreadStep(t) =>
              /\ Waiting(t)
              /\ LOCK.owner \in Threads \ {t}
              /\ ENABLED ThreadStep(LOCK.owner)

C18_Witness ==
    /\ Len(threads[1].stack) = 2
    /\ threads[1].stack[1].cm = "preserve_batch_state"
    /\ threads[1].stack[1].old = FALSE
    /\ threads[1].stack[2].cm = "preserve_batch_state"
    /\ threads[1].stack[2].pc = "unlock"
    /\ threads[1].stack[2].old = TRUE
    /\ threads[1].exc
    /\ gROOT.batch = TRUE
    /\ LOCK = [owner |-> 1, count |-> 2]
    /\ Waiting(2) /\ Top(2).cm = "preserve_set_th1_add_directory"

====
